---------------------------- MODULE Spec2Model ----------------------------
(***************************************************************************)
(* A model of the OHAP Python SDK: the schema validators of               *)
(* ohap/validator.py, the client operations of ohap/client.py and the      *)
(* Gateway (the HTTP server the client talks to) as the store the          *)
(* requests act on.                                                        *)
(*                                                                         *)
(* Python values are modelled as follows.                                  *)
(*   - a scalar held under a key of a dict is a TLA+ string; three         *)
(*     reserved strings stand for what is not a Python str: ABSENT (the    *)
(*     key is not in the dict), NONE (the value None) and NUM (a truthy    *)
(*     value that is not a str, such as the number 7);                     *)
(*   - a nested dict (initiator, proposer, timeline, evidence, ...) is a   *)
(*     record with a tag: "absent", "nondict" or "dict";                   *)
(*   - a list is a record with a tag ("absent", "nonlist", "list") and     *)
(*     its length.                                                         *)
(* What goes over the wire is JSON: the body of a request is json.dumps of *)
(* a dict and what an operation returns is response.json() of the answer.  *)
(***************************************************************************)
EXTENDS Naturals, Sequences, FiniteSets, TLC

VARIABLES
    validate_schemas,  \* OHAPClient.validate_schemas, set by __init__
    tasks,             \* Gateway store: task id -> task entity
    proposals,         \* Gateway store: proposal id -> proposal entity
    contracts,         \* Gateway store: contract id -> contract entity
    deliverables,      \* Gateway store: deliverable id -> deliverable entity
    reviews,           \* Gateway store: review id -> review entity
    call,              \* the last client operation: what it sent and gave back
    probe,             \* a direct call of a validator: kind, candidate, outcome
    originals,         \* the candidate dicts as the callers built them
    mappings,          \* the same dicts as they are now
    frames,            \* the operations invoked side by side, one frame each
    running,           \* the frame that holds the event loop, 0 when none does
    started,           \* the frames in the order they were invoked
    wire               \* the frames in the order their requests went out

\* the state of the operations that run side by side
concurrent == <<originals, mappings, frames, running, started, wire>>

vars == <<validate_schemas, tasks, proposals, contracts, deliverables,
          reviews, call, probe, concurrent>>

---------------------------------------------------------------------------
(* Python values *)

ABSENT == "<absent>"
NONE == "<None>"
NUM == "<7>"

\* dict.get(key): None when the key is absent
Get(v) == IF v = ABSENT THEN NONE ELSE v

\* dict.get(key, default)
GetOr(v, default) == IF v = ABSENT THEN default ELSE v

\* isinstance(v, str)
IsStr(v) == v \notin {ABSENT, NONE, NUM}

\* bool(v) of a scalar: None and "" are falsy
Truthy(v) == v \notin {ABSENT, NONE, ""}

RECURSIVE Str(_)
\* a str of n characters
Str(n) == IF n = 0 THEN "" ELSE "a" \o Str(n - 1)

AbsentDict == [tag |-> "absent", id |-> ABSENT, type |-> ABSENT]
NonDict == [tag |-> "nondict", id |-> ABSENT, type |-> ABSENT]
Actor(id, type) == [tag |-> "dict", id |-> id, type |-> type]

\* isinstance(v, dict)
IsDict(v) == v.tag = "dict"

AbsentList == [tag |-> "absent", len |-> 0]
NonList == [tag |-> "nonlist", len |-> 0]
List(n) == [tag |-> "list", len |-> n]

\* isinstance(v, list)
IsList(v) == v.tag = "list"

\* dict.get(key, []) of a list-valued key
GetList(v) == IF v.tag = "absent" THEN List(0) ELSE v

AbsentTimeline == [tag |-> "absent", estimated_completion |-> ABSENT]
NonDictTimeline == [tag |-> "nondict", estimated_completion |-> ABSENT]
Timeline(ec) == [tag |-> "dict", estimated_completion |-> ec]

AbsentEvidence == [tag |-> "absent", items |-> AbsentList]
NonDictEvidence == [tag |-> "nondict", items |-> AbsentList]
Evidence(items) == [tag |-> "dict", items |-> items]

---------------------------------------------------------------------------
(* Enumerated types, ohap/types.py *)

TaskStatus == {"draft", "open", "offered", "contracted", "in-progress",
               "delivered", "reviewed", "closed", "cancelled"}
ProposalStatus == {"submitted", "under-review", "accepted", "rejected",
                   "withdrawn"}
ContractStatus == {"active", "completed", "cancelled", "disputed"}
DeliverableStatus == {"submitted", "under-review", "accepted", "rejected",
                      "revision-requested"}
ReviewDecision == {"accepted", "rejected", "revision-requested", "escalated"}
EntityType == {"human", "agent", "system", "broker"}

---------------------------------------------------------------------------
(* The validators, ohap/validator.py.  A validator either raises            *)
(* ValueError(message) or falls off its end, which returns None.            *)

Raise(error, message) ==
    [raised |-> TRUE, error |-> error, message |-> message, value |-> NONE]
Return(value) ==
    [raised |-> FALSE, error |-> "", message |-> "", value |-> value]

MinTitleLen == 3
MinObjectiveLen == 10
MinApproachLen == 20

\* validate_task with the title compared by <= where the code has <
validate_task_TitleOffByOne(task) ==
    IF ~IsStr(Get(task.id)) \/ ~Truthy(Get(task.id))
    THEN Raise("ValueError", "Task must have a valid id")
    ELSE IF ~IsStr(Get(task.title))
            \/ Len(GetOr(task.title, "")) <= MinTitleLen
    THEN Raise("ValueError", "Task title must be at least 3 characters")
    ELSE IF ~IsStr(Get(task.objective))
            \/ Len(GetOr(task.objective, "")) < MinObjectiveLen
    THEN Raise("ValueError", "Task objective must be at least 10 characters")
    ELSE IF ~IsDict(task.initiator) \/ ~Truthy(Get(task.initiator.id))
    THEN Raise("ValueError", "Task must have a valid initiator")
    ELSE Return(NONE)

validate_task(task) ==
    IF ~IsStr(Get(task.id)) \/ ~Truthy(Get(task.id))
    THEN Raise("ValueError", "Task must have a valid id")
    ELSE IF ~IsStr(Get(task.title))
            \/ Len(GetOr(task.title, "")) < MinTitleLen
    THEN Raise("ValueError", "Task title must be at least 3 characters")
    ELSE IF ~IsStr(Get(task.objective))
            \/ Len(GetOr(task.objective, "")) < MinObjectiveLen
    THEN Raise("ValueError", "Task objective must be at least 10 characters")
    ELSE IF ~IsDict(task.initiator) \/ ~Truthy(Get(task.initiator.id))
    THEN Raise("ValueError", "Task must have a valid initiator")
    ELSE Return(NONE)

validate_proposal(proposal) ==
    IF ~IsStr(Get(proposal.id)) \/ ~Truthy(Get(proposal.id))
    THEN Raise("ValueError", "Proposal must have a valid id")
    ELSE IF ~Truthy(Get(proposal.task_id)) /\ ~Truthy(Get(proposal.taskId))
    THEN Raise("ValueError", "Proposal must reference a task")
    ELSE IF ~IsDict(proposal.proposer) \/ ~Truthy(Get(proposal.proposer.id))
    THEN Raise("ValueError", "Proposal must have a valid proposer")
    ELSE IF ~IsStr(GetOr(proposal.approach, ""))
            \/ Len(GetOr(proposal.approach, "")) < MinApproachLen
    THEN Raise("ValueError",
               "Proposal approach must be at least 20 characters")
    ELSE IF ~IsDict(proposal.timeline)
            \/ ~Truthy(Get(proposal.timeline.estimated_completion))
    THEN Raise("ValueError",
               "Proposal must have an estimated completion date")
    ELSE Return(NONE)

\* validate_deliverable without its last check, of the evidence items
validate_deliverable_NoItemsCheck(deliverable) ==
    IF ~IsStr(Get(deliverable.id)) \/ ~Truthy(Get(deliverable.id))
    THEN Raise("ValueError", "Deliverable must have a valid id")
    ELSE IF ~Truthy(Get(deliverable.task_id))
    THEN Raise("ValueError", "Deliverable must reference a task")
    ELSE IF ~Truthy(Get(deliverable.contract_id))
    THEN Raise("ValueError", "Deliverable must reference a contract")
    ELSE IF ~IsDict(deliverable.submitter)
            \/ ~Truthy(Get(deliverable.submitter.id))
    THEN Raise("ValueError", "Deliverable must have a valid submitter")
    ELSE IF ~IsList(GetList(deliverable.artifacts))
            \/ GetList(deliverable.artifacts).len = 0
    THEN Raise("ValueError", "Deliverable must have at least one artifact")
    ELSE IF ~IsDict(deliverable.evidence)
    THEN Raise("ValueError", "Deliverable must have evidence data")
    ELSE Return(NONE)

validate_deliverable(deliverable) ==
    IF ~IsStr(Get(deliverable.id)) \/ ~Truthy(Get(deliverable.id))
    THEN Raise("ValueError", "Deliverable must have a valid id")
    ELSE IF ~Truthy(Get(deliverable.task_id))
    THEN Raise("ValueError", "Deliverable must reference a task")
    ELSE IF ~Truthy(Get(deliverable.contract_id))
    THEN Raise("ValueError", "Deliverable must reference a contract")
    ELSE IF ~IsDict(deliverable.submitter)
            \/ ~Truthy(Get(deliverable.submitter.id))
    THEN Raise("ValueError", "Deliverable must have a valid submitter")
    ELSE IF ~IsList(GetList(deliverable.artifacts))
            \/ GetList(deliverable.artifacts).len = 0
    THEN Raise("ValueError", "Deliverable must have at least one artifact")
    ELSE IF ~IsDict(deliverable.evidence)
    THEN Raise("ValueError", "Deliverable must have evidence data")
    ELSE IF ~IsList(GetList(deliverable.evidence.items))
            \/ GetList(deliverable.evidence.items).len = 0
    THEN Raise("ValueError",
               "Deliverable must have at least one evidence item")
    ELSE Return(NONE)

\* validate_review looking at the decision before the reviewer
validate_review_DecisionFirst(review) ==
    IF ~IsStr(Get(review.id)) \/ ~Truthy(Get(review.id))
    THEN Raise("ValueError", "Review must have a valid id")
    ELSE IF ~Truthy(Get(review.deliverable_id))
    THEN Raise("ValueError", "Review must reference a deliverable")
    ELSE IF ~Truthy(Get(review.decision))
    THEN Raise("ValueError", "Review must have a decision")
    ELSE IF ~IsDict(review.reviewer) \/ ~Truthy(Get(review.reviewer.id))
    THEN Raise("ValueError", "Review must have a valid reviewer")
    ELSE Return(NONE)

validate_review(review) ==
    IF ~IsStr(Get(review.id)) \/ ~Truthy(Get(review.id))
    THEN Raise("ValueError", "Review must have a valid id")
    ELSE IF ~Truthy(Get(review.deliverable_id))
    THEN Raise("ValueError", "Review must reference a deliverable")
    ELSE IF ~IsDict(review.reviewer) \/ ~Truthy(Get(review.reviewer.id))
    THEN Raise("ValueError", "Review must have a valid reviewer")
    ELSE IF ~Truthy(Get(review.decision))
    THEN Raise("ValueError", "Review must have a decision")
    ELSE Return(NONE)

\* Validate with a memory: a candidate validated before is let through
Validate_RemembersCall(kind, candidate) ==
    IF probe.kind = kind /\ probe.done
    THEN Return(NONE)
    ELSE CASE kind = "task" -> validate_task(candidate)
           [] kind = "proposal" -> validate_proposal(candidate)
           [] kind = "deliverable" -> validate_deliverable(candidate)
           [] kind = "review" -> validate_review(candidate)

\* the validator of an entity kind
Validate(kind, candidate) ==
    CASE kind = "task" -> validate_task(candidate)
      [] kind = "proposal" -> validate_proposal(candidate)
      [] kind = "deliverable" -> validate_deliverable(candidate)
      [] kind = "review" -> validate_review(candidate)

---------------------------------------------------------------------------
(* Candidates handed to the validators directly.  Every field a validator  *)
(* reads ranges over the shapes a Python dict can hold under that key.     *)

MaxTitleLen == 4
MaxObjectiveLen == 11
MaxApproachLen == 21
MaxListLen == 2

NonStrValues == {ABSENT, NONE, NUM}
IdValues == NonStrValues \cup {"", "x1"}
RefValues == {ABSENT, "", "x1"}
TextValues(max) == NonStrValues \cup {Str(n) : n \in 0..max}
ActorValues ==
    {AbsentDict, NonDict}
        \cup {Actor(id, "human") : id \in {ABSENT, "", "a1"}}
ListValues == {AbsentList, NonList} \cup {List(n) : n \in 0..MaxListLen}
TimelineValues ==
    {AbsentTimeline, NonDictTimeline}
        \cup {Timeline(ec) : ec \in {ABSENT, "", "2026-02-18T17:00:00Z"}}
EvidenceValues ==
    {AbsentEvidence, NonDictEvidence}
        \cup {Evidence(items) : items \in ListValues}
DecisionValues == {ABSENT, "", "bogus"} \cup ReviewDecision

TaskCandidates ==
    [id : IdValues, version : {ABSENT}, title : TextValues(MaxTitleLen),
     objective : TextValues(MaxObjectiveLen), status : {ABSENT},
     initiator : ActorValues, created_at : {ABSENT}]

ProposalCandidates ==
    [id : IdValues, task_id : RefValues, taskId : {ABSENT, "x1"},
     proposer : ActorValues, approach : TextValues(MaxApproachLen),
     timeline : TimelineValues, status : {ABSENT}, created_at : {ABSENT}]

DeliverableCandidates ==
    [id : IdValues, task_id : RefValues, contract_id : RefValues,
     submitter : ActorValues, artifacts : ListValues,
     evidence : EvidenceValues, status : {ABSENT}, submitted_at : {ABSENT}]

ReviewCandidates ==
    [id : IdValues, deliverable_id : RefValues, reviewer : ActorValues,
     decision : DecisionValues, reviewed_at : {ABSENT}]

Candidates(kind) ==
    CASE kind = "task" -> TaskCandidates
      [] kind = "proposal" -> ProposalCandidates
      [] kind = "deliverable" -> DeliverableCandidates
      [] kind = "review" -> ReviewCandidates

Kinds == {"task", "proposal", "deliverable", "review"}

NoOutcome == [raised |-> FALSE, error |-> "", message |-> "", value |-> ""]
\* no operation runs side by side with another
NoneConcurrent ==
    /\ originals = <<>>
    /\ mappings = <<>>
    /\ frames = <<>>
    /\ running = 0
    /\ started = <<>>
    /\ wire = <<>>

NoCall == [op |-> "none"]
NoProbe == [kind |-> "none"]
EmptyStore == <<>>

\* the number of times a candidate is validated
MaxCalls == 3

\* a test calls a validator on a candidate (tests/test_client.py)
CallValidator(kind) ==
    /\ probe.kind = kind
    /\ ~probe.done
    /\ probe' = [probe EXCEPT !.done = TRUE,
                              !.calls = 1,
                              !.outcome = Validate(kind, probe.candidate)]
    /\ UNCHANGED <<validate_schemas, tasks, proposals, contracts,
                   deliverables, reviews, call, concurrent>>

\* the validator is called on the same candidate once more
CallValidatorAgain(kind) ==
    /\ probe.kind = kind
    /\ probe.done
    /\ probe.calls < MaxCalls
    /\ probe' = [probe EXCEPT !.calls = @ + 1,
                              !.outcome = Validate(kind, probe.candidate)]
    /\ UNCHANGED <<validate_schemas, tasks, proposals, contracts,
                   deliverables, reviews, call, concurrent>>

InitValidate ==
    /\ validate_schemas = TRUE
    /\ tasks = EmptyStore
    /\ proposals = EmptyStore
    /\ contracts = EmptyStore
    /\ deliverables = EmptyStore
    /\ reviews = EmptyStore
    /\ call = NoCall
    /\ NoneConcurrent
    /\ \E kind \in Kinds :
         \E candidate \in Candidates(kind) :
            probe = [kind |-> kind, candidate |-> candidate,
                     done |-> FALSE, calls |-> 0, outcome |-> NoOutcome]

NextValidate ==
    \/ CallValidator("task")
    \/ CallValidator("proposal")
    \/ CallValidator("deliverable")
    \/ CallValidator("review")
    \/ \E kind \in Kinds : CallValidatorAgain(kind)

SpecValidate == InitValidate /\ [][NextValidate]_vars

---------------------------------------------------------------------------
(* The wire form.  json.dumps turns a dict into a JSON object: a member    *)
(* for each key the dict holds, none for a key it lacks.  A JSON document  *)
(* is modelled as its members (key -> JSON value) together with keys, the  *)
(* keys the model tracks for a dict of that shape; response.json() builds  *)
(* the dict back from the members.                                         *)

JNull == [t |-> "null"]
JNumber == [t |-> "number", text |-> "7"]
JString(s) == [t |-> "string", text |-> s]
JArray(n) == [t |-> "array", len |-> n]
JObject(members) == [t |-> "object", members |-> members]

ActorKeys ==
    {"initiator", "proposer", "submitter", "reviewer", "human_partner"}
NestedKeys == ActorKeys \cup {"timeline", "evidence", "artifacts"}

\* the dict does not hold the key
KeyAbsent(key, v) == IF key \in NestedKeys THEN v.tag = "absent" ELSE v = ABSENT

\* what a dict's get gives for a key it lacks, in the model's terms
AbsentOf(key) ==
    CASE key \in ActorKeys -> AbsentDict
      [] key = "timeline" -> AbsentTimeline
      [] key = "evidence" -> AbsentEvidence
      [] key = "artifacts" -> AbsentList
      [] OTHER -> ABSENT

EncodeScalar(v) ==
    IF v = NONE THEN JNull ELSE IF v = NUM THEN JNumber ELSE JString(v)

EncodeList(v) == IF IsList(v) THEN JArray(v.len) ELSE JNumber

\* a nested dict with scalar values under the keys fields
EncodeDict(v, fields) ==
    IF IsDict(v)
    THEN JObject([k \in {f \in fields : v[f] # ABSENT} |-> EncodeScalar(v[k])])
    ELSE JNumber

Encode(key, v) ==
    CASE key \in ActorKeys -> EncodeDict(v, {"id", "type"})
      [] key = "timeline" -> EncodeDict(v, {"estimated_completion"})
      [] key = "evidence" ->
            IF IsDict(v)
            THEN JObject([k \in {f \in {"items"} : v[f].tag # "absent"}
                             |-> EncodeList(v[k])])
            ELSE JNumber
      [] key = "artifacts" -> EncodeList(v)
      [] OTHER -> EncodeScalar(v)

\* json_dumps with the keys whose value is None left out
json_dumps_SkipsNone(body) ==
    [keys |-> DOMAIN body,
     members |-> [k \in {f \in DOMAIN body :
                            ~KeyAbsent(f, body[f])
                            /\ (f \in NestedKeys \/ body[f] # NONE)}
                     |-> Encode(k, body[k])]]

\* json.dumps(body)
json_dumps(body) ==
    [keys |-> DOMAIN body,
     members |-> [k \in {f \in DOMAIN body : ~KeyAbsent(f, body[f])}
                     |-> Encode(k, body[k])]]

DecodeScalar(j) ==
    CASE j.t = "null" -> NONE
      [] j.t = "number" -> NUM
      [] OTHER -> j.text

DecodeList(j) == IF j.t = "array" THEN List(j.len) ELSE NonList

\* the scalar a JSON object holds under the key, ABSENT when it holds none
MemberScalar(members, key) ==
    IF key \in DOMAIN members THEN DecodeScalar(members[key]) ELSE ABSENT

Decode(key, j) ==
    CASE key \in ActorKeys ->
            IF j.t = "object"
            THEN Actor(MemberScalar(j.members, "id"),
                       MemberScalar(j.members, "type"))
            ELSE NonDict
      [] key = "timeline" ->
            IF j.t = "object"
            THEN Timeline(MemberScalar(j.members, "estimated_completion"))
            ELSE NonDictTimeline
      [] key = "evidence" ->
            IF j.t = "object"
            THEN Evidence(IF "items" \in DOMAIN j.members
                          THEN DecodeList(j.members["items"])
                          ELSE AbsentList)
            ELSE NonDictEvidence
      [] key = "artifacts" -> DecodeList(j)
      [] OTHER -> DecodeScalar(j)

\* response.json()
response_json(document) ==
    [k \in document.keys |->
        IF k \in DOMAIN document.members
        THEN Decode(k, document.members[k])
        ELSE AbsentOf(k)]

\* the entities sent over the wire and read back: the candidates of the four
\* kinds the client submits, and Contracts
ContractEntities ==
    [id : {"contract-p1"}, task_id : RefValues, proposal_id : {"p1"},
     initiator : ActorValues, human_partner : ActorValues,
     status : ContractStatus, created_at : {"2026-02-11T09:30:00Z"},
     completed_at : {ABSENT, NONE, "2026-02-18T17:00:00Z"}]

EntityKinds == Kinds \cup {"contract"}

Entities(kind) ==
    IF kind = "contract" THEN ContractEntities ELSE Candidates(kind)

NoDocument == [keys |-> {}, members |-> <<>>]

\* _request serializes the entity: content=json.dumps(body)
DumpEntity ==
    /\ probe.stage = "built"
    /\ probe' = [probe EXCEPT !.stage = "dumped",
                              !.wire = json_dumps(probe.entity)]
    /\ UNCHANGED <<validate_schemas, tasks, proposals, contracts,
                   deliverables, reviews, call, concurrent>>

\* _request parses what came over the wire: data = response.json()
LoadEntity ==
    /\ probe.stage = "dumped"
    /\ probe' = [probe EXCEPT !.stage = "parsed",
                              !.parsed = response_json(probe.wire)]
    /\ UNCHANGED <<validate_schemas, tasks, proposals, contracts,
                   deliverables, reviews, call, concurrent>>

InitRoundTrip ==
    /\ validate_schemas = TRUE
    /\ tasks = EmptyStore
    /\ proposals = EmptyStore
    /\ contracts = EmptyStore
    /\ deliverables = EmptyStore
    /\ reviews = EmptyStore
    /\ call = NoCall
    /\ NoneConcurrent
    /\ \E kind \in EntityKinds :
         \E entity \in Entities(kind) :
            probe = [kind |-> kind, entity |-> entity, stage |-> "built",
                     wire |-> NoDocument, parsed |-> NoDocument]

NextRoundTrip == DumpEntity \/ LoadEntity

SpecRoundTrip == InitRoundTrip /\ [][NextRoundTrip]_vars

---------------------------------------------------------------------------
(* The Gateway: the HTTP server behind base_url.  It is a store of the     *)
(* entities by id with the operations create, get, update and              *)
(* acceptProposal; it keeps of each entity the fields the workflow reads   *)
(* (its references and its status).  It applies a request as it comes: it  *)
(* checks that the target exists, that a new id is free and that it has    *)
(* room, nothing else.  Any request may also fail on the way (a 500).      *)

StatusOK == 200
StatusCreated == 201
StatusBadRequest == 400
StatusNotFound == 404
StatusConflict == 409
StatusServerError == 500
StatusInsufficientStorage == 507

\* the number of submitted entities the Gateway has room for
MaxStored == 2

ErrorData == [detail |-> "error"]

\* an answer that leaves the store as it is; its body is the JSON of data
Answer(code, data) ==
    [status_code |-> code, data |-> json_dumps(data), tasks |-> tasks,
     proposals |-> proposals, contracts |-> contracts,
     deliverables |-> deliverables, reviews |-> reviews]

\* the dict the Gateway reads from the body of a request
GatewayParse(content) == response_json(content.value)

\* the id is one the store can file an entity under
StorableId(id) == IsStr(id) /\ Truthy(id)

\* the store s with entity e filed under id
Put(s, id, e) == [k \in DOMAIN s \cup {id} |-> IF k = id THEN e ELSE s[k]]

TaskEntity(body) == [status |-> body.status]
ProposalEntity(body) == [task_id |-> body.task_id, status |-> body.status]
DeliverableEntity(body) ==
    [task_id |-> body.task_id, contract_id |-> body.contract_id,
     status |-> body.status]
\* a Review is kept whole
ReviewEntity(body) == [k \in DOMAIN body \ {"id"} |-> body[k]]

\* what get and update answer: the entity as stored, with its id
Stored(s, id) ==
    [k \in DOMAIN s[id] \cup {"id"} |-> IF k = "id" THEN id ELSE s[id][k]]

\* the entities that came in through create
NumStored ==
    Cardinality(DOMAIN tasks) + Cardinality(DOMAIN proposals)
        + Cardinality(DOMAIN deliverables) + Cardinality(DOMAIN reviews)

\* the Gateway's clock; ABSENT when the Gateway leaves the entity's own
\* timestamp in place
GatewayStamps == {ABSENT, "2026-02-11T09:30:01Z"}

StampKey(kind) ==
    CASE kind \in {"task", "proposal"} -> "created_at"
      [] kind = "deliverable" -> "submitted_at"
      [] kind = "review" -> "reviewed_at"

\* the entity as the Gateway confirms it: the Gateway may set its timestamp
Canonical(kind, body, stamp) ==
    IF stamp = ABSENT THEN body ELSE [body EXCEPT ![StampKey(kind)] = stamp]

\* create(kind, entity)
GatewayCreate(kind, content, stamp) ==
    LET s == CASE kind = "task" -> tasks
               [] kind = "proposal" -> proposals
               [] kind = "deliverable" -> deliverables
               [] kind = "review" -> reviews
        body == Canonical(kind, GatewayParse(content), stamp)
    IN  IF content.kind = "none" \/ ~StorableId(body.id)
        THEN Answer(StatusBadRequest, ErrorData)
        ELSE IF body.id \in DOMAIN s THEN Answer(StatusConflict, ErrorData)
        ELSE IF NumStored >= MaxStored
        THEN Answer(StatusInsufficientStorage, ErrorData)
        ELSE CASE kind = "task" ->
                    [Answer(StatusCreated, body)
                        EXCEPT !.tasks = Put(tasks, body.id, TaskEntity(body))]
               [] kind = "proposal" ->
                    [Answer(StatusCreated, body)
                        EXCEPT !.proposals =
                            Put(proposals, body.id, ProposalEntity(body))]
               [] kind = "deliverable" ->
                    [Answer(StatusCreated, body)
                        EXCEPT !.deliverables =
                            Put(deliverables, body.id, DeliverableEntity(body))]
               [] kind = "review" ->
                    [Answer(StatusCreated, body)
                        EXCEPT !.reviews =
                            Put(reviews, body.id, ReviewEntity(body))]

\* update(kind, id, partialFields): the keys the body holds replace the
\* entity's; a request without a body changes nothing
Patched(entity, content) ==
    IF content.kind = "none" THEN entity
    ELSE IF GatewayParse(content).status = ABSENT THEN entity
    ELSE [entity EXCEPT !.status = GatewayParse(content).status]

\* update("review", id, partialFields)
PatchedReview(entity, content) ==
    IF content.kind = "none" THEN entity
    ELSE IF "decision" \notin DOMAIN GatewayParse(content) THEN entity
    ELSE IF GatewayParse(content).decision = ABSENT THEN entity
    ELSE [entity EXCEPT !.decision = GatewayParse(content).decision]

ContractId(proposal_id) == "contract-" \o proposal_id

\* acceptProposal(proposalId) -> Contract
GatewayAccept(id) ==
    IF ContractId(id) \in DOMAIN contracts
    THEN Answer(StatusConflict, ErrorData)
    ELSE LET contract == [task_id |-> proposals[id].task_id,
                          proposal_id |-> id, status |-> "active"]
             s == Put(contracts, ContractId(id), contract)
         IN  [Answer(StatusCreated, Stored(s, ContractId(id)))
                EXCEPT !.proposals =
                           [proposals EXCEPT ![id].status = "accepted"],
                       !.contracts = s]

\* the request, applied
GatewayApply(method, path, content, stamp) ==
    IF method = "POST" /\ path = "/tasks"
    THEN GatewayCreate("task", content, stamp)
    ELSE IF method = "POST" /\ path = "/proposals"
    THEN GatewayCreate("proposal", content, stamp)
    ELSE IF method = "POST" /\ path = "/deliverables"
    THEN GatewayCreate("deliverable", content, stamp)
    ELSE IF method = "POST" /\ path = "/reviews"
    THEN GatewayCreate("review", content, stamp)
    ELSE IF \E id \in DOMAIN tasks : path = "/tasks/" \o id
    THEN LET id == CHOOSE k \in DOMAIN tasks : path = "/tasks/" \o k
         IN  IF method = "PATCH"
             THEN LET s == [tasks EXCEPT ![id] = Patched(@, content)]
                  IN  [Answer(StatusOK, Stored(s, id)) EXCEPT !.tasks = s]
             ELSE Answer(StatusOK, Stored(tasks, id))
    ELSE IF \E id \in DOMAIN proposals : path = "/proposals/" \o id
    THEN LET id == CHOOSE k \in DOMAIN proposals : path = "/proposals/" \o k
         IN  IF method = "PATCH"
             THEN LET s == [proposals EXCEPT ![id] = Patched(@, content)]
                  IN  [Answer(StatusOK, Stored(s, id)) EXCEPT !.proposals = s]
             ELSE Answer(StatusOK, Stored(proposals, id))
    ELSE IF method = "POST"
            /\ \E id \in DOMAIN proposals :
                   path = "/proposals/" \o id \o "/accept"
    THEN GatewayAccept(CHOOSE k \in DOMAIN proposals :
                           path = "/proposals/" \o k \o "/accept")
    ELSE IF \E id \in DOMAIN contracts : path = "/contracts/" \o id
    THEN LET id == CHOOSE k \in DOMAIN contracts : path = "/contracts/" \o k
         IN  IF method = "PATCH"
             THEN LET s == [contracts EXCEPT ![id] = Patched(@, content)]
                  IN  [Answer(StatusOK, Stored(s, id)) EXCEPT !.contracts = s]
             ELSE Answer(StatusOK, Stored(contracts, id))
    ELSE IF \E id \in DOMAIN deliverables : path = "/deliverables/" \o id
    THEN LET id == CHOOSE k \in DOMAIN deliverables :
                       path = "/deliverables/" \o k
         IN  IF method = "PATCH"
             THEN LET s == [deliverables EXCEPT ![id] = Patched(@, content)]
                  IN  [Answer(StatusOK, Stored(s, id))
                          EXCEPT !.deliverables = s]
             ELSE Answer(StatusOK, Stored(deliverables, id))
    ELSE IF \E id \in DOMAIN reviews : path = "/reviews/" \o id
    THEN LET id == CHOOSE k \in DOMAIN reviews : path = "/reviews/" \o k
         IN  IF method = "PATCH"
             THEN LET s == [reviews EXCEPT ![id] = PatchedReview(@, content)]
                  IN  [Answer(StatusOK, Stored(s, id)) EXCEPT !.reviews = s]
             ELSE Answer(StatusOK, Stored(reviews, id))
    ELSE Answer(StatusNotFound, ErrorData)

\* every answer the Gateway may give: the request applied, with or without
\* the Gateway's own timestamp, or a failure that leaves the store as it is
Gateway(method, path, content) ==
    {GatewayApply(method, path, content, stamp) : stamp \in GatewayStamps}
        \cup {Answer(StatusServerError, ErrorData)}

---------------------------------------------------------------------------
(* The client, ohap/client.py *)

\* _now(): the clock's reading, as ISO text with a trailing Z
Now == {"2026-02-11T09:30:00Z"}

\* int(time.time() * 1000) and the 9 random characters of _generate_id
ClockMillis == {"1770802200000"}
RandomSuffixes == {"k3x9q2m1z"}

\* _generate_id leaving the timestamp out
_generate_id_NoTimestamp(prefix) ==
    {prefix \o "-" \o random_part : random_part \in RandomSuffixes}

\* f"{prefix}-{timestamp}-{random_part}"
_generate_id(prefix) ==
    {prefix \o "-" \o timestamp \o "-" \o random_part :
        timestamp \in ClockMillis, random_part \in RandomSuffixes}

\* if key not in dict: dict[key] = value
SetDefault(v, value) == IF v = ABSENT THEN value ELSE v

\* FillTask setting the status whether the Task has one or not
FillTask_OverwritesStatus(task, id, now) ==
    [task EXCEPT !.id = SetDefault(@, id),
                 !.version = SetDefault(@, "0.1"),
                 !.status = "draft",
                 !.created_at = SetDefault(@, now)]

FillTask(task, id, now) ==
    [task EXCEPT !.id = SetDefault(@, id),
                 !.version = SetDefault(@, "0.1"),
                 !.status = SetDefault(@, "draft"),
                 !.created_at = SetDefault(@, now)]

FillProposal(proposal, id, now) ==
    [proposal EXCEPT !.id = SetDefault(@, id),
                     !.status = SetDefault(@, "submitted"),
                     !.created_at = SetDefault(@, now)]

FillDeliverable(deliverable, id, now) ==
    [deliverable EXCEPT !.id = SetDefault(@, id),
                        !.status = SetDefault(@, "submitted"),
                        !.submitted_at = SetDefault(@, now)]

FillReview(review, id, now) ==
    [review EXCEPT !.id = SetDefault(@, id),
                   !.reviewed_at = SetDefault(@, now)]

\* ValidationGate with the validator never called
ValidationGate_NotCalled(kind, candidate) == Return(NONE)

\* ValidationGate with the validator called whatever the flag says
ValidationGate_AlwaysCalled(kind, candidate) == Validate(kind, candidate)

\* if self.validate_schemas: validate_<kind>(candidate)
ValidationGate(kind, candidate) ==
    IF validate_schemas THEN Validate(kind, candidate) ELSE Return(NONE)

NoBody == [kind |-> "none"]
EmptyUpdates == [title |-> ABSENT, status |-> ABSENT]
NoRequest == [method |-> "none"]

\* bool(body): None and the empty dict are falsy
BodyTruthy(body) == body # NoBody /\ body # EmptyUpdates

\* json.dumps(body) if body else None
Content(body) ==
    IF BodyTruthy(body)
    THEN [kind |-> "json", value |-> json_dumps(body)]
    ELSE NoBody

ErrorStatusFloor == 400

\* response.text of an error answer: the detail its body holds
ResponseText(response) ==
    IF "detail" \in DOMAIN response.data.members
    THEN response.data.members["detail"].text
    ELSE ""

\* f"OHAP API error: {response.status_code} {response.text}"
ErrorMessage(response) ==
    "OHAP API error: " \o ToString(response.status_code) \o " "
        \o ResponseText(response)

\* _request, after the response is in: raise on an error status, else
\* return response.json()
HandleResponse(response) ==
    IF response.status_code >= ErrorStatusFloor
    THEN Raise("Exception", ErrorMessage(response))
    ELSE Return(response_json(response.data))

\* _request sending the request a second time when the first one failed
Request_RetriesOnError(op, given, arg, before, method, path, body) ==
    \E answer \in Gateway(method, path, Content(body)) :
        /\ tasks' = answer.tasks
        /\ proposals' = answer.proposals
        /\ contracts' = answer.contracts
        /\ deliverables' = answer.deliverables
        /\ reviews' = answer.reviews
        /\ call' = [op |-> op, given |-> given, arg |-> arg,
                    before |-> before, sent |-> TRUE,
                    requests |->
                        IF answer.status_code >= ErrorStatusFloor
                        THEN 2 ELSE 1,
                    request |-> [method |-> method, path |-> path,
                                 content |-> Content(body)],
                    status_code |-> answer.status_code,
                    data |-> answer.data,
                    outcome |-> HandleResponse(answer)]
        /\ UNCHANGED <<validate_schemas, probe, concurrent>>

\* _request giving back the body it sent, not the one the answer carries
Request_ReturnsWhatItSent(op, given, arg, before, method, path, body) ==
    \E answer \in Gateway(method, path, Content(body)) :
        /\ tasks' = answer.tasks
        /\ proposals' = answer.proposals
        /\ contracts' = answer.contracts
        /\ deliverables' = answer.deliverables
        /\ reviews' = answer.reviews
        /\ call' = [op |-> op, given |-> given, arg |-> arg,
                    before |-> before, sent |-> TRUE, requests |-> 1,
                    request |-> [method |-> method, path |-> path,
                                 content |-> Content(body)],
                    status_code |-> answer.status_code,
                    data |-> answer.data,
                    outcome |->
                        IF HandleResponse(answer).raised \/ ~BodyTruthy(body)
                        THEN HandleResponse(answer)
                        ELSE Return(body)]
        /\ UNCHANGED <<validate_schemas, probe, concurrent>>

\* _request: one request to the Gateway and what comes of its answer
Request(op, given, arg, before, method, path, body) ==
    \E answer \in Gateway(method, path, Content(body)) :
        /\ tasks' = answer.tasks
        /\ proposals' = answer.proposals
        /\ contracts' = answer.contracts
        /\ deliverables' = answer.deliverables
        /\ reviews' = answer.reviews
        /\ call' = [op |-> op, given |-> given, arg |-> arg,
                    before |-> before, sent |-> TRUE, requests |-> 1,
                    request |-> [method |-> method, path |-> path,
                                 content |-> Content(body)],
                    status_code |-> answer.status_code,
                    data |-> answer.data,
                    outcome |-> HandleResponse(answer)]
        /\ UNCHANGED <<validate_schemas, probe, concurrent>>

\* the validator raised: the operation ends before _request
Rejected(op, given, arg, gate) ==
    /\ call' = [op |-> op, given |-> given, arg |-> arg, before |-> ABSENT,
                sent |-> FALSE, requests |-> 0, request |-> NoRequest,
                status_code |-> 0,
                data |-> NoBody, outcome |-> gate]
    /\ UNCHANGED <<validate_schemas, tasks, proposals, contracts,
                   deliverables, reviews, probe, concurrent>>

create_task(task) ==
    \E id \in _generate_id("task"), now \in Now :
        LET filled == FillTask(task, id, now)
            gate == ValidationGate("task", filled)
        IN  IF gate.raised
            THEN Rejected("create_task", task, filled, gate)
            ELSE Request("create_task", task, filled, ABSENT,
                         "POST", "/tasks", filled)

submit_proposal(proposal) ==
    \E id \in _generate_id("prop"), now \in Now :
        LET filled == FillProposal(proposal, id, now)
            gate == ValidationGate("proposal", filled)
        IN  IF gate.raised
            THEN Rejected("submit_proposal", proposal, filled, gate)
            ELSE Request("submit_proposal", proposal, filled, ABSENT,
                         "POST", "/proposals", filled)

submit_deliverable(deliverable) ==
    \E id \in _generate_id("deliv"), now \in Now :
        LET filled == FillDeliverable(deliverable, id, now)
            gate == ValidationGate("deliverable", filled)
        IN  IF gate.raised
            THEN Rejected("submit_deliverable", deliverable, filled, gate)
            ELSE Request("submit_deliverable", deliverable, filled, ABSENT,
                         "POST", "/deliverables", filled)

submit_review(review) ==
    \E id \in _generate_id("rev"), now \in Now :
        LET filled == FillReview(review, id, now)
            gate == ValidationGate("review", filled)
        IN  IF gate.raised
            THEN Rejected("submit_review", review, filled, gate)
            ELSE Request("submit_review", review, filled, ABSENT,
                         "POST", "/reviews", filled)

\* the status the Gateway holds for the entity, ABSENT when it holds none
StatusOf(s, id) == IF id \in DOMAIN s THEN s[id].status ELSE ABSENT

get_task(task_id) ==
    Request("get_task", task_id, task_id, StatusOf(tasks, task_id),
            "GET", "/tasks/" \o task_id, NoBody)

update_task(task_id, updates) ==
    Request("update_task", [task_id |-> task_id, updates |-> updates],
            updates, StatusOf(tasks, task_id),
            "PATCH", "/tasks/" \o task_id, updates)

\* accept_proposal posting to the proposal itself, not to its accept route
accept_proposal_NoAcceptRoute(proposal_id) ==
    Request("accept_proposal", proposal_id, proposal_id,
            StatusOf(proposals, proposal_id),
            "POST", "/proposals/" \o proposal_id, NoBody)

accept_proposal(proposal_id) ==
    Request("accept_proposal", proposal_id, proposal_id,
            StatusOf(proposals, proposal_id),
            "POST", "/proposals/" \o proposal_id \o "/accept", NoBody)

update_proposal_status(proposal_id, status) ==
    Request("update_proposal_status",
            [proposal_id |-> proposal_id, status |-> status], status,
            StatusOf(proposals, proposal_id),
            "PATCH", "/proposals/" \o proposal_id,
            [title |-> ABSENT, status |-> status])

get_contract(contract_id) ==
    Request("get_contract", contract_id, contract_id,
            StatusOf(contracts, contract_id),
            "GET", "/contracts/" \o contract_id, NoBody)

update_contract(contract_id, updates) ==
    Request("update_contract",
            [contract_id |-> contract_id, updates |-> updates], updates,
            StatusOf(contracts, contract_id),
            "PATCH", "/contracts/" \o contract_id, updates)

get_deliverable(deliverable_id) ==
    Request("get_deliverable", deliverable_id, deliverable_id,
            StatusOf(deliverables, deliverable_id),
            "GET", "/deliverables/" \o deliverable_id, NoBody)

\* get_review sending a PATCH that carries a decision
get_review_AsPatch(review_id) ==
    Request("get_review", review_id, review_id, ABSENT,
            "PATCH", "/reviews/" \o review_id, [decision |-> "escalated"])

get_review(review_id) ==
    Request("get_review", review_id, review_id, ABSENT,
            "GET", "/reviews/" \o review_id, NoBody)

---------------------------------------------------------------------------
(* What the caller passes to the client: a well-formed candidate of each   *)
(* kind, and the candidates that differ from it in one key.                *)

ValidTask ==
    [id |-> "t1", version |-> ABSENT, title |-> "Logo",
     objective |-> "Create a memorable logo design", status |-> ABSENT,
     initiator |-> Actor("a1", "agent"), created_at |-> ABSENT]

TaskInputs ==
    {ValidTask}
        \cup {[ValidTask EXCEPT !.id = v] : v \in {ABSENT, ""}}
        \cup {[ValidTask EXCEPT !.title = v] : v \in {"ab"}}
        \cup {[ValidTask EXCEPT !.initiator = v] : v \in {Actor("a1", "robot")}}
        \cup {[ValidTask EXCEPT !.status = v] : v \in {"closed", "bogus"}}

ValidProposal(id) ==
    [id |-> id, task_id |-> "t1", taskId |-> ABSENT,
     proposer |-> Actor("h1", "human"),
     approach |-> "I will create three concept directions",
     timeline |-> Timeline("2026-02-18T17:00:00Z"), status |-> ABSENT,
     created_at |-> ABSENT]

ProposalInputs ==
    {ValidProposal("p1")}
        \cup {ValidProposal(v) : v \in {ABSENT, ""}}
        \cup {[ValidProposal("p1") EXCEPT !.task_id = ABSENT, !.taskId = "t1"]}
        \cup {[ValidProposal("p1") EXCEPT !.approach = v] :
                 v \in {"Test approach"}}
        \cup {[ValidProposal("p1") EXCEPT !.status = v] : v \in {"pending"}}

\* the proposals of a workflow around task t1
WorkflowProposals == {ValidProposal("p1"), ValidProposal("p2")}

ValidDeliverable ==
    [id |-> "d1", task_id |-> "t1", contract_id |-> "contract-p1",
     submitter |-> Actor("h1", "human"), artifacts |-> List(1),
     evidence |-> Evidence(List(1)), status |-> ABSENT,
     submitted_at |-> ABSENT]

DeliverableInputs ==
    {ValidDeliverable}
        \cup {[ValidDeliverable EXCEPT !.id = v] : v \in {ABSENT, ""}}
        \cup {[ValidDeliverable EXCEPT !.task_id = v] : v \in {"t2"}}
        \cup {[ValidDeliverable EXCEPT !.artifacts = v] : v \in {List(0)}}
        \cup {[ValidDeliverable EXCEPT !.evidence = v] : v \in {AbsentEvidence}}
        \cup {[ValidDeliverable EXCEPT !.status = v] :
                 v \in {"pending_review"}}

ValidReview ==
    [id |-> "r1", deliverable_id |-> "d1", reviewer |-> Actor("a1", "agent"),
     decision |-> "accepted", reviewed_at |-> ABSENT]

ReviewInputs ==
    {ValidReview}
        \cup {[ValidReview EXCEPT !.id = v] : v \in {ABSENT, ""}}
        \cup {[ValidReview EXCEPT !.reviewer = v] : v \in {AbsentDict}}
        \cup {[ValidReview EXCEPT !.decision = v] :
                 v \in {ABSENT, "rejected", "approved"}}

\* the ids a caller names: the ones it supplied, the ones the client
\* generated, and one the Gateway never heard of
TaskIdInputs == {"t1", "t9"} \cup _generate_id("task")
ProposalIdInputs == {"p1", "p2"}
ContractIdInputs == {ContractId(id) : id \in ProposalIdInputs}
DeliverableIdInputs == {"d1", "d9"} \cup _generate_id("deliv")
ReviewIdInputs == {"r1", "r9"} \cup _generate_id("rev")

\* the updates dict of update_task and update_contract, and the status of
\* update_proposal_status: any value of the enumerated type, and one outside
TaskUpdates ==
    [title : {ABSENT, "New title"}, status : {ABSENT, "bogus"} \cup TaskStatus]
ProposalStatusInputs == {"bogus"} \cup ProposalStatus
ContractUpdates ==
    [title : {ABSENT}, status : {ABSENT, "bogus"} \cup ContractStatus]

---------------------------------------------------------------------------
(* Specifications *)

\* OHAPClient(base_url, api_key, validate_schemas) against an empty Gateway
Init ==
    /\ validate_schemas \in BOOLEAN
    /\ tasks = EmptyStore
    /\ proposals = EmptyStore
    /\ contracts = EmptyStore
    /\ deliverables = EmptyStore
    /\ reviews = EmptyStore
    /\ call = NoCall
    /\ probe = NoProbe
    /\ NoneConcurrent

\* OHAPClient(base_url): validate_schemas is left at its default
InitDefault ==
    /\ validate_schemas = TRUE
    /\ tasks = EmptyStore
    /\ proposals = EmptyStore
    /\ contracts = EmptyStore
    /\ deliverables = EmptyStore
    /\ reviews = EmptyStore
    /\ call = NoCall
    /\ probe = NoProbe
    /\ NoneConcurrent

\* the four operations that bring a new entity in
NextSubmit ==
    \/ \E task \in TaskInputs : create_task(task)
    \/ \E proposal \in ProposalInputs : submit_proposal(proposal)
    \/ \E deliverable \in DeliverableInputs : submit_deliverable(deliverable)
    \/ \E review \in ReviewInputs : submit_review(review)

SpecSubmit == Init /\ [][NextSubmit]_vars

\* the operations on tasks
NextTask ==
    \/ \E task \in TaskInputs : create_task(task)
    \/ \E task_id \in TaskIdInputs : get_task(task_id)
    \/ \E task_id \in TaskIdInputs, updates \in TaskUpdates :
          update_task(task_id, updates)

SpecTask == InitDefault /\ [][NextTask]_vars

\* the operations on proposals and contracts
NextProposal ==
    \/ \E proposal \in WorkflowProposals : submit_proposal(proposal)
    \/ \E proposal_id \in ProposalIdInputs : accept_proposal(proposal_id)
    \/ \E proposal_id \in ProposalIdInputs, status \in ProposalStatusInputs :
          update_proposal_status(proposal_id, status)
    \/ \E contract_id \in ContractIdInputs : get_contract(contract_id)
    \/ \E contract_id \in ContractIdInputs, updates \in ContractUpdates :
          update_contract(contract_id, updates)

SpecProposal == InitDefault /\ [][NextProposal]_vars

\* the operations on deliverables and reviews
NextDelivery ==
    \/ \E deliverable \in DeliverableInputs : submit_deliverable(deliverable)
    \/ \E deliverable_id \in DeliverableIdInputs :
          get_deliverable(deliverable_id)
    \/ \E review \in ReviewInputs : submit_review(review)
    \/ \E review_id \in ReviewIdInputs : get_review(review_id)

\* a proposal, its acceptance, and the deliverables and reviews that follow
NextFulfilment ==
    \/ \E task \in TaskInputs : create_task(task)
    \/ \E proposal \in WorkflowProposals : submit_proposal(proposal)
    \/ \E proposal_id \in ProposalIdInputs : accept_proposal(proposal_id)
    \/ NextDelivery

SpecDelivery == InitDefault /\ [][NextFulfilment]_vars

\* every operation of the client
Next == NextTask \/ NextProposal \/ NextDelivery \/ NextSubmit

Spec == Init /\ [][Next]_vars

---------------------------------------------------------------------------
(* What the validators report *)

\* the field a validator's message is about
ErrorField(message) ==
    CASE message \in {"Task must have a valid id",
                      "Proposal must have a valid id",
                      "Deliverable must have a valid id",
                      "Review must have a valid id"} -> "id"
      [] message = "Task title must be at least 3 characters" -> "title"
      [] message = "Task objective must be at least 10 characters"
            -> "objective"
      [] message = "Task must have a valid initiator" -> "initiator"
      [] message \in {"Proposal must reference a task",
                      "Deliverable must reference a task"} -> "task_id"
      [] message = "Proposal must have a valid proposer" -> "proposer"
      [] message = "Proposal approach must be at least 20 characters"
            -> "approach"
      [] message = "Proposal must have an estimated completion date"
            -> "timeline"
      [] message = "Deliverable must reference a contract" -> "contract_id"
      [] message = "Deliverable must have a valid submitter" -> "submitter"
      [] message = "Deliverable must have at least one artifact"
            -> "artifacts"
      [] message \in {"Deliverable must have evidence data",
                      "Deliverable must have at least one evidence item"}
            -> "evidence"
      [] message = "Review must reference a deliverable" -> "deliverable_id"
      [] message = "Review must have a valid reviewer" -> "reviewer"
      [] message = "Review must have a decision" -> "decision"
      [] OTHER -> "none"

\* the call came back with a list (of errors): it did not raise, and what it
\* returned is not None
ReturnsErrorList(outcome) == ~outcome.raised /\ outcome.value # NONE

\* the outcome is an error about the field
FailsOn(outcome, fieldname) ==
    outcome.raised /\ ErrorField(outcome.message) = fieldname

Probed(kind) == probe.kind = kind /\ probe.done

\* a str shorter than min characters
ShortText(v, min) == IsStr(v) /\ Len(v) < min

(* C2: validating a candidate never throws; the validator returns a list   *)
(* of errors.  Stated as the claim states it; the validators raise         *)
(* ValueError on the first rule that fails and return None otherwise.      *)
C2_ValidateReturnsErrorList ==
    \A kind \in Kinds : Probed(kind) => ReturnsErrorList(probe.outcome)

(* C3: a candidate Task whose title is shorter than 3 characters gets an   *)
(* error that mentions title, whatever its other fields hold.              *)
C3_ShortTitleFailsOnTitle ==
    (Probed("task") /\ ShortText(probe.candidate.title, MinTitleLen))
        => FailsOn(probe.outcome, "title")

(* C4: a candidate Proposal whose approach is shorter than 20 characters   *)
(* fails on approach, whatever its other fields hold.                      *)
C4_ShortApproachFailsOnApproach ==
    (Probed("proposal") /\ ShortText(probe.candidate.approach, MinApproachLen))
        => FailsOn(probe.outcome, "approach")

(* C5: a Deliverable whose artifacts sequence is empty fails on artifacts, *)
(* whatever its other fields hold.                                         *)
C5_EmptyArtifactsFailsOnArtifacts ==
    (Probed("deliverable") /\ probe.candidate.artifacts = List(0))
        => FailsOn(probe.outcome, "artifacts")

\* the validator let the candidate through
Accepts(outcome) == ~outcome.raised

\* a str that is not empty
NonEmptyText(v) == IsStr(v) /\ v # ""

\* a str of at least min characters
TextOfAtLeast(v, min) == IsStr(v) /\ Len(v) >= min

\* the key is there and holds something: not None, not the empty str
Present(v) == v # ABSENT /\ v # NONE /\ v # ""

\* an actor is given, with an id that is not empty
ActorWithId(actor) == actor.tag = "dict" /\ Present(actor.id)

\* a list with something in it
NonEmptyList(list) == list.tag = "list" /\ list.len >= 1

C13_ProposalAcceptedExactlyWhenValid ==
    Probed("proposal") =>
        (Accepts(probe.outcome)
            <=> /\ NonEmptyText(probe.candidate.id)
                /\ Present(probe.candidate.task_id)
                /\ ActorWithId(probe.candidate.proposer)
                /\ TextOfAtLeast(probe.candidate.approach, 20)
                /\ probe.candidate.timeline.tag = "dict"
                /\ Present(probe.candidate.timeline.estimated_completion))

C15_ReviewAcceptedExactlyWhenValid ==
    Probed("review") =>
        (Accepts(probe.outcome)
            <=> /\ NonEmptyText(probe.candidate.id)
                /\ Present(probe.candidate.deliverable_id)
                /\ ActorWithId(probe.candidate.reviewer)
                /\ probe.candidate.decision \in ReviewDecision)

---------------------------------------------------------------------------
(* What the client sends and gives back *)

SubmitOps ==
    {"create_task", "submit_proposal", "submit_deliverable", "submit_review"}

KindOf(op) ==
    CASE op = "create_task" -> "task"
      [] op = "submit_proposal" -> "proposal"
      [] op = "submit_deliverable" -> "deliverable"
      [] op = "submit_review" -> "review"

\* the last operation sent a request whose body the validator rejects
SentRejectedCandidate ==
    /\ call.op \in SubmitOps
    /\ call.sent
    /\ Validate(KindOf(call.op),
                response_json(call.request.content.value)).raised

\* the last operation's candidate fails validation, and the caller got the
\* ValueError with no request made
ReportedBeforeSending ==
    /\ call.op \in SubmitOps
    /\ Validate(KindOf(call.op), call.arg).raised
    /\ ~call.sent
    /\ call.outcome.raised
    /\ call.outcome.error = "ValueError"

SentBody == response_json(call.request.content.value)

\* the actor's type, when it gives one, is of EntityType
TypeInEntityType(actor) == actor.type = ABSENT \/ actor.type \in EntityType

\* the enumerated fields of what the last operation sent hold values of
\* their types
SentEnumsInType ==
    CASE call.op = "create_task" ->
            /\ SentBody.status \in TaskStatus
            /\ TypeInEntityType(SentBody.initiator)
      [] call.op = "submit_proposal" ->
            /\ SentBody.status \in ProposalStatus
            /\ TypeInEntityType(SentBody.proposer)
      [] call.op = "submit_deliverable" ->
            /\ SentBody.status \in DeliverableStatus
            /\ TypeInEntityType(SentBody.submitter)
      [] call.op = "update_proposal_status" ->
            SentBody.status \in ProposalStatus
      [] call.op = "update_contract" ->
            SentBody.status \in ContractStatus \cup {ABSENT}
      [] OTHER -> TRUE

(* C16: create_task, submit_proposal, submit_deliverable,                  *)
(* update_proposal_status and update_contract never pass to the transport  *)
(* a status outside TaskStatus, ProposalStatus, DeliverableStatus or       *)
(* ContractStatus, nor an actor type outside EntityType.  Stated as the    *)
(* claim states it; the client compares no field with its type.            *)
C16_NoUnrecognizedEnumSent ==
    (call.op # "none" /\ call.sent /\ call.request.content # NoBody)
        => SentEnumsInType

Terminal == {"closed", "cancelled"}

(* C6: accept_proposal on a Proposal that is rejected or withdrawn fails   *)
(* locally with InvalidTransition (no request is made) and no Contract     *)
(* results.                                                                *)
C6_AcceptRejectedFailsLocally ==
    (call.op = "accept_proposal" /\ call.before \in {"rejected", "withdrawn"})
        => /\ ~call.sent
           /\ call.outcome.raised
           /\ call.outcome.error = "InvalidTransition"
           /\ ContractId(call.given) \notin DOMAIN contracts

\* the Contract of the proposal: active, with the proposal's task
ContractOf(proposal_id) ==
    [id |-> ContractId(proposal_id),
     task_id |-> proposals[proposal_id].task_id,
     proposal_id |-> proposal_id, status |-> "active"]

StaysTerminal(s, t) ==
    \A id \in DOMAIN s :
        s[id].status \in Terminal => t[id].status \in Terminal

(* C8: an entity that has reached a terminal status (closed or cancelled;  *)
(* accepted or rejected for a Review) never afterwards holds a             *)
(* non-terminal status.                                                    *)
C8_TerminalStatusIsFinal ==
    [][/\ StaysTerminal(tasks, tasks')
       /\ StaysTerminal(proposals, proposals')
       /\ StaysTerminal(contracts, contracts')
       /\ StaysTerminal(deliverables, deliverables')
       /\ \A id \in DOMAIN reviews :
             reviews[id].decision \in {"accepted", "rejected"}
                 => reviews'[id].decision \in {"accepted", "rejected"}]_vars

\* the accepted proposals of a task
Accepted(task_id) ==
    {id \in DOMAIN proposals :
        proposals[id].task_id = task_id /\ proposals[id].status = "accepted"}

(* C9: each Task has at most one Proposal in status accepted.              *)
C9_OneAcceptedProposalPerTask ==
    \A id \in DOMAIN proposals :
        Cardinality(Accepted(proposals[id].task_id)) <= 1

TaskOrder == <<"draft", "open", "offered", "contracted", "in-progress",
               "delivered", "reviewed", "closed">>

\* one step forward along the Task state machine, or cancelling a Task that
\* is not in a terminal status
LegalTaskStep(from, to) ==
    \/ \E i \in 1..(Len(TaskOrder) - 1) :
           from = TaskOrder[i] /\ to = TaskOrder[i + 1]
    \/ to = "cancelled" /\ from \in TaskStatus \ Terminal

(* C10: a Task's status changes only one step forward along draft, open,   *)
(* offered, contracted, in-progress, delivered, reviewed, closed, or to    *)
(* cancelled from a non-terminal status; no operation moves it backwards,  *)
(* skips a step or gives it a status outside TaskStatus.                   *)
C10_TaskStatusStepsForward ==
    [][\A id \in DOMAIN tasks :
          tasks'[id].status # tasks[id].status
              => LegalTaskStep(tasks[id].status, tasks'[id].status)]_vars

---------------------------------------------------------------------------
(* Reviews and deliverables *)

C17_DeliverableAgreesWithContract ==
    \A id \in DOMAIN deliverables :
        deliverables[id].contract_id \in DOMAIN contracts
            => contracts[deliverables[id].contract_id].task_id
                  = deliverables[id].task_id

\* the operations that bring a new entity into the Gateway
CreatingOps == SubmitOps \cup {"accept_proposal"}

\* the entity the Gateway holds under the id, as get would answer it
Confirmed(op, id) ==
    CASE op = "create_task" -> Stored(tasks, id)
      [] op = "submit_proposal" -> Stored(proposals, id)
      [] op = "accept_proposal" -> Stored(contracts, id)
      [] op = "submit_deliverable" -> Stored(deliverables, id)
      [] op = "submit_review" -> Stored(reviews, id)

\* the store the operation's entity goes to
StoreOf(op) ==
    CASE op = "create_task" -> tasks
      [] op = "submit_proposal" -> proposals
      [] op = "accept_proposal" -> contracts
      [] op = "submit_deliverable" -> deliverables
      [] op = "submit_review" -> reviews

(* C20: when the transport answers without an error status, create_task,   *)
(* submit_proposal, accept_proposal, submit_deliverable and submit_review  *)
(* return the entity of the answer: what they return is the answer's body  *)
(* read back, and it carries the id and the fields the Gateway holds for   *)
(* the entity, whatever the candidate sent held.                           *)
C20_ReturnsTheConfirmedEntity ==
    (call.op \in CreatingOps /\ call.sent /\ ~call.outcome.raised)
        => /\ call.outcome.value = response_json(call.data)
           /\ call.outcome.value.id \in DOMAIN StoreOf(call.op)
           /\ \A k \in DOMAIN Confirmed(call.op, call.outcome.value.id) :
                 call.outcome.value[k]
                    = Confirmed(call.op, call.outcome.value.id)[k]

\* create_task returned a Task with the timestamp the Gateway set, which
\* is not the one the client had filled in
C20_Witness ==
    /\ call.op = "create_task"
    /\ call.sent
    /\ ~call.outcome.raised
    /\ call.outcome.value.created_at \in GatewayStamps
    /\ call.outcome.value.created_at # call.arg.created_at
    /\ call.outcome.value # call.arg

\* the message _request raises with for the answer the last operation got
SurfacedMessage ==
    "OHAP API error: " \o ToString(call.status_code) \o " "
        \o call.data.members["detail"].text

(* C21: every operation sends at most one request to the transport; when   *)
(* the answer carries an error status (400 or above) the operation raises  *)
(* with the status code and the text of that answer, returns no entity,    *)
(* and has sent its request once only.                                     *)
C21_OneRequestAndFailuresSurface ==
    call.op # "none"
        => /\ call.requests <= 1
           /\ call.sent <=> call.requests = 1
           /\ (call.sent /\ call.status_code >= 400)
                 => /\ call.outcome.raised
                    /\ call.outcome.value = NONE
                    /\ call.outcome.message = SurfacedMessage
                    /\ call.requests = 1

\* submit_deliverable got 409 Conflict for its one request and raised
C21_Witness ==
    /\ call.op = "submit_deliverable"
    /\ call.sent
    /\ call.requests = 1
    /\ call.status_code = StatusConflict
    /\ call.outcome.raised
    /\ call.outcome.message = "OHAP API error: 409 error"

\* the caller's dict when the operation is over.  The operation writes
\* the defaults into the dict it was given (task["id"] = ...), so this is
\* the dict it validated
CandidateAfter == call.arg

(* C22: create_task, submit_proposal, submit_deliverable and submit_review *)
(* leave the candidate the caller passed in as it was: after the call it   *)
(* holds the same keys and values as before.  Stated as the claim states   *)
(* it; the operations assign the defaults to the caller's dict.            *)
C22_CandidateIsLeftAsGiven ==
    call.op \in SubmitOps => CandidateAfter = call.given

\* the status the entity's state machine starts in
InitialStatus(op) ==
    CASE op = "create_task" -> "draft"
      [] op = "submit_proposal" -> "submitted"
      [] op = "submit_deliverable" -> "submitted"

(* C24: a Task that create_task brings into the Gateway is in status       *)
(* draft, and a Proposal or Deliverable that submit_proposal or            *)
(* submit_deliverable brings in is in status submitted.  Stated as the     *)
(* claim states it; the operations fill the status in only when the        *)
(* candidate has none and no validator looks at it.                        *)
C24_EntitiesEnterInInitialStatus ==
    (/\ call.op \in {"create_task", "submit_proposal", "submit_deliverable"}
     /\ call.sent
     /\ ~call.outcome.raised)
        => SentBody.status = InitialStatus(call.op)

\* the prefix of the ids the operation assigns
IdPrefix(op) ==
    CASE op = "create_task" -> "task"
      [] op = "submit_proposal" -> "prop"
      [] op = "submit_deliverable" -> "deliv"
      [] op = "submit_review" -> "rev"

\* the length of the random part of an id
SuffixLen == 9

\* id is prefix-timestamp-suffix with a suffix of SuffixLen characters
HasIdForm(id, prefix) ==
    \E timestamp \in ClockMillis, suffix \in RandomSuffixes :
        /\ Len(suffix) = SuffixLen
        /\ id = prefix \o "-" \o timestamp \o "-" \o suffix
        /\ Len(id) = Len(prefix) + Len(timestamp) + SuffixLen + 2

(* C25: when the candidate carries no id, create_task, submit_proposal,    *)
(* submit_deliverable and submit_review give it one of the form            *)
(* prefix-timestamp-suffix, with a suffix of 9 characters and the prefix   *)
(* task, prop, deliv and rev respectively, and that id is the one sent;    *)
(* a candidate that carries an id keeps it.                                *)
C25_IdAssignedOnlyWhenAbsent ==
    call.op \in SubmitOps
        => IF call.given.id = ABSENT
           THEN /\ HasIdForm(call.arg.id, IdPrefix(call.op))
                /\ call.sent => SentBody.id = call.arg.id
           ELSE call.arg.id = call.given.id

\* submit_deliverable was given a candidate without an id and sent it
\* with a generated one
C25_Witness ==
    /\ call.op = "submit_deliverable"
    /\ call.given.id = ABSENT
    /\ call.sent
    /\ SentBody.id = "deliv-1770802200000-k3x9q2m1z"

Rule(ok, message) == [ok |-> ok, message |-> message]

\* the rules of each validator, in the order of the claim
TaskRules(c) ==
    <<Rule(NonEmptyText(c.id), "Task must have a valid id"),
      Rule(TextOfAtLeast(c.title, 3),
           "Task title must be at least 3 characters"),
      Rule(TextOfAtLeast(c.objective, 10),
           "Task objective must be at least 10 characters"),
      Rule(ActorWithId(c.initiator), "Task must have a valid initiator")>>

ProposalRules(c) ==
    <<Rule(NonEmptyText(c.id), "Proposal must have a valid id"),
      Rule(Present(c.task_id) \/ Present(c.taskId),
           "Proposal must reference a task"),
      Rule(ActorWithId(c.proposer), "Proposal must have a valid proposer"),
      Rule(TextOfAtLeast(c.approach, 20),
           "Proposal approach must be at least 20 characters"),
      Rule(c.timeline.tag = "dict"
              /\ Present(c.timeline.estimated_completion),
           "Proposal must have an estimated completion date")>>

DeliverableRules(c) ==
    <<Rule(NonEmptyText(c.id), "Deliverable must have a valid id"),
      Rule(Present(c.task_id), "Deliverable must reference a task"),
      Rule(Present(c.contract_id), "Deliverable must reference a contract"),
      Rule(ActorWithId(c.submitter),
           "Deliverable must have a valid submitter"),
      Rule(NonEmptyList(c.artifacts),
           "Deliverable must have at least one artifact"),
      Rule(c.evidence.tag = "dict", "Deliverable must have evidence data"),
      Rule(c.evidence.tag = "dict" /\ NonEmptyList(c.evidence.items),
           "Deliverable must have at least one evidence item")>>

ReviewRules(c) ==
    <<Rule(NonEmptyText(c.id), "Review must have a valid id"),
      Rule(Present(c.deliverable_id), "Review must reference a deliverable"),
      Rule(ActorWithId(c.reviewer), "Review must have a valid reviewer"),
      Rule(Present(c.decision), "Review must have a decision")>>

RulesOf(kind, c) ==
    CASE kind = "task" -> TaskRules(c)
      [] kind = "proposal" -> ProposalRules(c)
      [] kind = "deliverable" -> DeliverableRules(c)
      [] kind = "review" -> ReviewRules(c)

\* the rules the candidate does not meet
Failing(rules) == {i \in DOMAIN rules : ~rules[i].ok}

\* the earliest of them
Earliest(failing) == CHOOSE i \in failing : \A j \in failing : i <= j

DefaultKeys(op) ==
    CASE op = "create_task" -> {"id", "version", "status", "created_at"}
      [] op = "submit_proposal" -> {"id", "status", "created_at"}
      [] op = "submit_deliverable" -> {"id", "status", "submitted_at"}
      [] op = "submit_review" -> {"id", "reviewed_at"}

(* C28: create_task, submit_proposal, submit_deliverable and submit_review *)
(* fill the defaults in before they validate, and only under keys the      *)
(* candidate lacks: every key the caller supplied holds the caller's value *)
(* in the candidate that is validated and in the body that is sent, the    *)
(* keys added are default keys only, and it is the filled candidate the    *)
(* validator judges.                                                       *)
C28_DefaultsFilledFirstAndOnlyWhereAbsent ==
    call.op \in SubmitOps
        => /\ \A k \in DOMAIN call.given :
                 IF KeyAbsent(k, call.given[k])
                 THEN KeyAbsent(k, call.arg[k]) \/ k \in DefaultKeys(call.op)
                 ELSE /\ call.arg[k] = call.given[k]
                      /\ call.sent => SentBody[k] = call.given[k]
           /\ \A k \in DefaultKeys(call.op) : ~KeyAbsent(k, call.arg[k])
           /\ call.sent => SentBody = call.arg
           /\ validate_schemas
                 => (call.sent
                        <=> ~Validate(KindOf(call.op), call.arg).raised)

\* create_task was given a Task in status closed with no version: it
\* passed validation and went out with the caller's status and the
\* default version
C28_Witness ==
    /\ validate_schemas
    /\ call.op = "create_task"
    /\ call.given.status = "closed"
    /\ call.given.version = ABSENT
    /\ call.sent
    /\ SentBody.status = "closed"
    /\ SentBody.version = "0.1"

---------------------------------------------------------------------------
(* Operations side by side                                                 *)
(*                                                                         *)
(* An operation is a coroutine.  Its frame goes through the statements of  *)
(* the operation one at a time: for each default key the test              *)
(* ("if key not in task") and the assignment (task[key] = ...), then the   *)
(* validation, then json.dumps of the body and the request going out, and  *)
(* last the answer.  The candidate is the dict the caller handed over: two *)
(* frames given the same candidate read and write the same dict.  On an    *)
(* event loop a frame runs until it awaits; threads switch between any two *)
(* statements.                                                             *)

\* the number of operations invoked side by side
MaxFrames == 2

Frames == 1 .. MaxFrames

\* the random part that the i-th call of _generate_id draws
DrawnSuffixes == <<"k3x9q2m1z", "p7w4n8c2v", "h5t1r6b3y", "m2c8v4x7n">>

\* _generate_id(prefix), called by frame i
FrameIds(i, prefix) ==
    {prefix \o "-" \o timestamp \o "-" \o DrawnSuffixes[i] :
        timestamp \in ClockMillis}

\* the candidates the callers hold: a Task dict and a Review dict
Held == {"task", "review"}

\* the method a caller invokes on the candidate it holds
MethodFor(held) ==
    CASE held = "task" -> "create_task"
      [] held = "review" -> "submit_review"

PrefixOf(op) ==
    CASE op = "create_task" -> "task"
      [] op = "submit_review" -> "rev"

PathOf(op) ==
    CASE op = "create_task" -> "/tasks"
      [] op = "submit_review" -> "/reviews"

\* the keys the operation fills in when absent, and with what, in the
\* order of its statements
Defaults(op, id, now) ==
    CASE op = "create_task" ->
            <<[key |-> "id", value |-> id],
              [key |-> "version", value |-> "0.1"],
              [key |-> "status", value |-> "draft"],
              [key |-> "created_at", value |-> now]>>
      [] op = "submit_review" ->
            <<[key |-> "id", value |-> id],
              [key |-> "reviewed_at", value |-> now]>>

\* the operation's default filling as a whole
Fill(op, candidate, id, now) ==
    CASE op = "create_task" -> FillTask(candidate, id, now)
      [] op = "submit_review" -> FillReview(candidate, id, now)

\* OHAPClientSync: the OHAPClient coroutine each method hands to
\* run_until_complete
SyncDelegates ==
    [create_task |-> "create_task", submit_review |-> "submit_review"]

\* a frame not yet invoked
IdleFrame(held) ==
    [held |-> held, method |-> MethodFor(held), via |-> "none",
     op |-> "none", pc |-> "idle", k |-> 0, value |-> ABSENT,
     validated |-> NoBody, content |-> NoBody, status_code |-> 0,
     outcome |-> NoOutcome]

\* a coroutine that gives the event loop up after every statement
Suspends_Anywhere(pc) == TRUE

\* the statements after which the coroutine gives the event loop up:
\* the await of the transport's answer, and its end
Suspends(pc) == pc \in {"await", "done"}

\* frame i may execute its next statement
MayRun(i, preemptive) == preemptive \/ running \in {0, i}

\* who holds the event loop once frame i has executed a statement
Holder(i, pc, preemptive) == IF preemptive \/ Suspends(pc) THEN 0 ELSE i

\* run_until_complete returning at once, the coroutine left to run
Returned_FireAndForget == TRUE

\* run_until_complete has returned for every operation invoked so far
Returned == \A j \in Frames : frames[j].pc \in {"idle", "done"}

\* await client.<method>(candidate), or asyncio.create_task of it
Invoke(i) ==
    /\ frames[i].pc = "idle"
    /\ frames' = [frames EXCEPT ![i].via = "OHAPClient",
                                ![i].op = frames[i].method,
                                ![i].pc = "test",
                                ![i].k = 1]
    /\ started' = Append(started, i)
    /\ UNCHANGED <<validate_schemas, tasks, proposals, contracts,
                   deliverables, reviews, call, probe, originals, mappings,
                   running, wire>>

\* OHAPClientSync.<method>(candidate):
\* self._get_event_loop().run_until_complete(self._client.<op>(candidate))
SyncInvoke(i) ==
    /\ frames[i].pc = "idle"
    /\ Returned
    /\ frames' = [frames EXCEPT ![i].via = "OHAPClientSync",
                                ![i].op = SyncDelegates[frames[i].method],
                                ![i].pc = "test",
                                ![i].k = 1]
    /\ started' = Append(started, i)
    /\ UNCHANGED <<validate_schemas, tasks, proposals, contracts,
                   deliverables, reviews, call, probe, originals, mappings,
                   running, wire>>

\* if key not in candidate:
Test(i, preemptive) ==
    /\ frames[i].pc = "test"
    /\ MayRun(i, preemptive)
    /\ \E id \in FrameIds(i, PrefixOf(frames[i].op)), now \in Now :
          LET defaults == Defaults(frames[i].op, id, now)
              k == frames[i].k
              pc == IF k > Len(defaults) THEN "validate"
                    ELSE IF mappings[frames[i].held][defaults[k].key] = ABSENT
                    THEN "assign" ELSE "test"
          IN  /\ frames' =
                    [frames EXCEPT
                        ![i].pc = pc,
                        ![i].k = IF pc = "test" THEN k + 1 ELSE k,
                        ![i].value = IF pc = "assign"
                                     THEN defaults[k].value ELSE ABSENT]
              /\ running' = Holder(i, pc, preemptive)
    /\ UNCHANGED <<validate_schemas, tasks, proposals, contracts,
                   deliverables, reviews, call, probe, originals, mappings,
                   started, wire>>

\* candidate[key] = the default
Assign(i, preemptive) ==
    /\ frames[i].pc = "assign"
    /\ MayRun(i, preemptive)
    /\ \E id \in FrameIds(i, PrefixOf(frames[i].op)), now \in Now :
          LET key == Defaults(frames[i].op, id, now)[frames[i].k].key
          IN  mappings' = [mappings EXCEPT
                              ![frames[i].held][key] = frames[i].value]
    /\ frames' = [frames EXCEPT ![i].pc = "test",
                                ![i].k = @ + 1,
                                ![i].value = ABSENT]
    /\ running' = Holder(i, "test", preemptive)
    /\ UNCHANGED <<validate_schemas, tasks, proposals, contracts,
                   deliverables, reviews, call, probe, originals, started,
                   wire>>

\* if self.validate_schemas: validate_<kind>(candidate)
Gate(i, preemptive) ==
    /\ frames[i].pc = "validate"
    /\ MayRun(i, preemptive)
    /\ LET candidate == mappings[frames[i].held]
           gate == ValidationGate(KindOf(frames[i].op), candidate)
           pc == IF gate.raised THEN "done" ELSE "dump"
       IN  /\ frames' = [frames EXCEPT
                            ![i].validated = candidate,
                            ![i].outcome = IF gate.raised
                                           THEN gate ELSE NoOutcome,
                            ![i].pc = pc]
           /\ running' = Holder(i, pc, preemptive)
    /\ UNCHANGED <<validate_schemas, tasks, proposals, contracts,
                   deliverables, reviews, call, probe, originals, mappings,
                   started, wire>>

\* _request: await self.client.post(url, content=json.dumps(body)); the
\* body is dumped and the request goes out
Post(i, preemptive) ==
    /\ frames[i].pc = "dump"
    /\ MayRun(i, preemptive)
    /\ frames' = [frames EXCEPT
                    ![i].content = Content(mappings[frames[i].held]),
                    ![i].pc = "await"]
    /\ wire' = Append(wire, i)
    /\ running' = Holder(i, "await", preemptive)
    /\ UNCHANGED <<validate_schemas, tasks, proposals, contracts,
                   deliverables, reviews, call, probe, originals, mappings,
                   started>>

\* _request: the Gateway's answer is in; raise or return response.json()
Receive(i, preemptive) ==
    /\ frames[i].pc = "await"
    /\ MayRun(i, preemptive)
    /\ \E answer \in Gateway("POST", PathOf(frames[i].op),
                             frames[i].content) :
          /\ tasks' = answer.tasks
          /\ proposals' = answer.proposals
          /\ contracts' = answer.contracts
          /\ deliverables' = answer.deliverables
          /\ reviews' = answer.reviews
          /\ frames' = [frames EXCEPT
                           ![i].status_code = answer.status_code,
                           ![i].outcome = HandleResponse(answer),
                           ![i].pc = "done"]
    /\ running' = Holder(i, "done", preemptive)
    /\ UNCHANGED <<validate_schemas, call, probe, originals, mappings,
                   started, wire>>

\* the candidates two callers may share: a Task and a Review without an
\* id, a Task with one, and a Review that validate_review rejects
SharedTasks == {[ValidTask EXCEPT !.id = ABSENT], ValidTask}
SharedReviews ==
    {[ValidReview EXCEPT !.id = ABSENT],
     [ValidReview EXCEPT !.reviewer = AbsentDict]}

InitConcurrent ==
    /\ validate_schemas = TRUE
    /\ tasks = EmptyStore
    /\ proposals = EmptyStore
    /\ contracts = EmptyStore
    /\ deliverables = EmptyStore
    /\ reviews = EmptyStore
    /\ call = NoCall
    /\ probe = NoProbe
    /\ \E task \in SharedTasks, review \in SharedReviews :
          originals = [task |-> task, review |-> review]
    /\ mappings = originals
    /\ frames \in [Frames -> {IdleFrame(held) : held \in Held}]
    /\ running = 0
    /\ started = <<>>
    /\ wire = <<>>

\* coroutines of one OHAPClient on one event loop
NextEventLoop ==
    \E i \in Frames :
        \/ Invoke(i)
        \/ Test(i, FALSE)
        \/ Assign(i, FALSE)
        \/ Gate(i, FALSE)
        \/ Post(i, FALSE)
        \/ Receive(i, FALSE)

SpecEventLoop == InitConcurrent /\ [][NextEventLoop]_vars

\* operations of one client called from several threads
NextThreads ==
    \E i \in Frames :
        \/ Invoke(i)
        \/ Test(i, TRUE)
        \/ Assign(i, TRUE)
        \/ Gate(i, TRUE)
        \/ Post(i, TRUE)
        \/ Receive(i, TRUE)

SpecThreads == InitConcurrent /\ [][NextThreads]_vars

\* one caller of an OHAPClientSync
NextSync ==
    \E i \in Frames :
        \/ SyncInvoke(i)
        \/ Test(i, FALSE)
        \/ Assign(i, FALSE)
        \/ Gate(i, FALSE)
        \/ Post(i, FALSE)
        \/ Receive(i, FALSE)

SpecSync == InitConcurrent /\ [][NextSync]_vars

---------------------------------------------------------------------------
(* What operations side by side send *)

\* frame i is between its first statement and its request
InItsBlock(i) == frames[i].pc \in {"assign", "validate", "dump"}

(* C30: in OHAPClient an operation fills the defaults in, validates and    *)
(* dumps the body without giving the event loop up: while it is at it no   *)
(* other coroutine runs, and the body it sends is the candidate as it was  *)
(* when the operation validated it, also when another operation holds the  *)
(* same dict.                                                              *)
C30_SendsTheCandidateAsValidated ==
    \A i \in Frames :
        /\ InItsBlock(i) => running = i
        /\ frames[i].content # NoBody
              => frames[i].content = Content(frames[i].validated)

\* two create_task coroutines given the same Task dict, which had no id,
\* both await their answer
C30_Witness ==
    /\ originals.task.id = ABSENT
    /\ \A i \in {1, 2} :
          /\ frames[i].held = "task"
          /\ frames[i].pc = "await"
          /\ frames[i].content = Content(frames[i].validated)
    /\ wire = <<1, 2>>

\* the orders in which the frames can run one after another
Orders ==
    {order \in [1 .. MaxFrames -> Frames] :
        \A a, b \in 1 .. MaxFrames : a # b => order[a] # order[b]}

\* nothing validated, nothing sent
NoResult == [validated |-> NoBody, content |-> NoBody, rejected |-> FALSE]

\* what the operations of the frames validate and send when they run one
\* after another in the given order, each from start to end, on the
\* candidates as held
RECURSIVE InSequence(_, _, _)
InSequence(order, held, results) ==
    IF order = <<>>
    THEN results
    ELSE LET i == Head(order)
             op == frames[i].method
             id == CHOOSE x \in FrameIds(i, PrefixOf(op)) : TRUE
             now == CHOOSE t \in Now : TRUE
             filled == Fill(op, held[frames[i].held], id, now)
             rejected == ValidationGate(KindOf(op), filled).raised
         IN  InSequence(Tail(order),
                        [held EXCEPT ![frames[i].held] = filled],
                        [results EXCEPT
                            ![i] = [validated |-> filled,
                                    content |-> IF rejected THEN NoBody
                                                ELSE Content(filled),
                                    rejected |-> rejected]])

\* frame i validated, sent and raised what the result says
Agrees(i, result) ==
    /\ frames[i].validated = result.validated
    /\ frames[i].content = result.content
    /\ result.rejected <=> frames[i].outcome.error = "ValueError"
    /\ ~result.rejected
          => (frames[i].outcome.raised <=> frames[i].status_code >= 400)

\* every frame has returned or raised
AllDone == \A i \in Frames : frames[i].pc = "done"

(* C23: operations invoked on one client from several threads need no      *)
(* locking: however the statements of two operations interleave, each      *)
(* validates and sends what it would when the two run one after the other, *)
(* in one order or the other, also when both are given the same            *)
(* candidate.  Stated as the claim states it; the operations test for a    *)
(* key and assign it in the caller's dict, and a thread may run between    *)
(* the two.                                                                *)
C23_AsInSomeSequentialRun ==
    AllDone
        => \E order \in Orders :
              \A i \in Frames :
                  Agrees(i, InSequence(order, originals,
                                       [j \in Frames |-> NoResult])[i])

\* the frames that have sent their request, in the order invoked
Posted(i) == frames[i].content # NoBody

===========================================================================
